---- MODULE Spec2Model ----
(***************************************************************************)
(* Model of the tandoor-api release scripts:                               *)
(*   scripts/compute_version.py  (tag resolver, normalizer, state store,   *)
(*                                version tool main)                       *)
(*   scripts/extract_schema.py   (schema extraction orchestrator)          *)
(*   scripts/validate_client.py  (package validator)                       *)
(*                                                                         *)
(* A Python str is a sequence of one-character strings.  An optional       *)
(* argument (argparse default None) is a record with a `some` flag.        *)
(***************************************************************************)
EXTENDS Integers, Sequences, FiniteSets, TLC

VARIABLES
    \* normalize_tag applied on its own
    nTag, nOuts,
    \* get_latest_upstream_tag applied on its own
    rListing, rOutcome,
    \* compute_version.py main
    pc, tagArg, updateRef, stateDoc, doc0, version, printed, queries, error, exitCode,
    \* extract_schema.py main
    sPc, sArgc, sDirExists, sStubExists, sOutExists, sRc, sCapOut, sCapErr,
    sLog, sExit,
    \* validate_client.py main
    vPc, artifact, vArgc, vMypy, vResults, vFound, vMissing, vRaised, vExit

normVars == <<nTag, nOuts>>
resVars  == <<rListing, rOutcome>>
verVars  == <<pc, tagArg, updateRef, stateDoc, doc0, version, printed, queries,
              error, exitCode>>
schVars  == <<sPc, sArgc, sDirExists, sStubExists, sOutExists, sRc, sCapOut,
              sCapErr, sLog, sExit>>
valVars  == <<vPc, artifact, vArgc, vMypy, vResults, vFound, vMissing, vRaised,
              vExit>>
vars     == <<normVars, resVars, verVars, schVars, valVars>>

----------------------------------------------------------------------------
(* Bounds *)

\* most dot-separated components of a string handed to normalize_tag
MaxParts == 4
\* most lines of a remote listing handed to get_latest_upstream_tag
MaxLines == 3
\* most lines of the remote listing a version-tool run receives
MaxQueryLines == 1
\* most key/value entries of the state document found on disk
MaxEntries == 2

----------------------------------------------------------------------------
(* Python str helpers *)

None == [some |-> FALSE]
Some(s) == [some |-> TRUE, val |-> s]

\* truth value of an optional str argument: None and "" are falsy
Truthy(o) == o.some /\ o.val # <<>>

\* str.split(sep) for a one-character separator
Split(s, sep) ==
    LET RECURSIVE Go(_, _, _)
        Go(i, cur, acc) ==
            IF i > Len(s) THEN Append(acc, cur)
            ELSE IF s[i] = sep THEN Go(i + 1, <<>>, Append(acc, cur))
            ELSE Go(i + 1, Append(cur, s[i]), acc)
    IN Go(1, <<>>, <<>>)

\* sep.join(parts)
Join(parts, sep) ==
    LET RECURSIVE Go(_, _)
        Go(i, acc) ==
            IF i > Len(parts) THEN acc
            ELSE Go(i + 1, IF i = 1 THEN parts[i] ELSE acc \o <<sep>> \o parts[i])
    IN Go(1, <<>>)

\* str.endswith(suffix)
EndsWith(s, suffix) ==
    /\ Len(s) >= Len(suffix)
    /\ SubSeq(s, Len(s) - Len(suffix) + 1, Len(s)) = suffix

\* whether `sub` occurs in s at position i
OccursAt(s, sub, i) ==
    /\ i + Len(sub) - 1 <= Len(s)
    /\ SubSeq(s, i, i + Len(sub) - 1) = sub

\* str.replace(old, "") : every non-overlapping occurrence, left to right
RemoveAll(s, old) ==
    LET RECURSIVE Go(_, _)
        Go(i, acc) ==
            IF i > Len(s) THEN acc
            ELSE IF OccursAt(s, old, i) THEN Go(i + Len(old), acc)
            ELSE Go(i + 1, Append(acc, s[i]))
    IN Go(1, <<>>)

\* `sub in s`
Contains(s, sub) == \E i \in 1..(Len(s) + 1) : OccursAt(s, sub, i)

Digits == {"0", "1", "2", "3", "4", "5", "6", "7", "8", "9"}

DigitVal(c) == CHOOSE d \in 0..9 : <<"0", "1", "2", "3", "4", "5", "6", "7", "8", "9">>[d + 1] = c

\* int(p) for a string of decimal digits
ParseInt(p) ==
    LET RECURSIVE Go(_, _)
        Go(i, acc) == IF i > Len(p) THEN acc ELSE Go(i + 1, acc * 10 + DigitVal(p[i]))
    IN Go(1, 0)

----------------------------------------------------------------------------
(* Version Normalizer: normalize_tag *)

\* while len(parts) < 3: parts.append("0")
PadParts(parts) ==
    LET RECURSIVE Go(_)
        Go(ps) == IF Len(ps) < 3 THEN Go(Append(ps, <<"0">>)) ELSE ps
    IN Go(parts)

\* faulty variant: the result is not cut to three components
normalize_tag_nocut(tag) == Join(PadParts(Split(tag, ".")), ".")

normalize_tag(tag) == Join(SubSeq(PadParts(Split(tag, ".")), 1, 3), ".")

----------------------------------------------------------------------------
(* Tag Resolver: get_latest_upstream_tag *)

Prefix == <<"r", "e", "f", "s", "/", "t", "a", "g", "s", "/">>
PeelMark == <<"^", "{", "}">>
Tab == "\t"

\* tag names published by the remote, written out as Python strs
Tag_2_9 == <<"2", ".", "9">>
Tag_2_10 == <<"2", ".", "1", "0">>
Tag_2_2 == <<"2", ".", "2">>
Tag_2_09 == <<"2", ".", "0", "9">>
Tag_v1_0 == <<"v", "1", ".", "0">>
Tag_1_0_rc1 == <<"1", ".", "0", "-", "r", "c", "1">>
Tag_1_0_0 == <<"1", ".", "0", ".", "0">>
Tag_1 == <<"1">>
\* a legal tag name (git check-ref-format accepts refs/tags/1.refs/tags/0)
Tag_nested == <<"1", ".">> \o Prefix \o <<"0">>

TagNames == {Tag_2_9, Tag_2_10, Tag_2_2, Tag_2_09, Tag_v1_0, Tag_1_0_rc1,
             Tag_1_0_0, Tag_1, Tag_nested}

\* one line of `git ls-remote --tags` output: hash <TAB> ref
RefLine(ref) == <<"a", Tab>> \o ref

\* the lines a listing is made of: a tag ref per name, the peeled marker of an
\* annotated tag, and a line that carries no tab
Lines == {RefLine(Prefix \o n) : n \in TagNames}
             \cup {RefLine(Prefix \o Tag_2_10 \o PeelMark)}
             \cup {Prefix \o <<"9", ".", "9">>}

\* result.stdout.strip().splitlines(), of at most n lines
Listings(n) == UNION {[1..k -> Lines] : k \in 0..n}

\* line.split("\t")[1] if "\t" in line else ""
RefOf(line) == IF Contains(line, <<Tab>>) THEN Split(line, Tab)[2] ELSE <<>>

\* re.match(r"^\d+\.\d+(\.\d+)?$", tag), run as the automaton of the pattern:
\* 0 start, 1 in MAJOR, 2 after the first dot, 3 in MINOR, 4 after the second
\* dot, 5 in PATCH, 6 dead.  (No tag holds a newline: they come from splitlines.)
MatchesSemver(tag) ==
    LET Step(q, c) ==
            IF c \in Digits
            THEN CASE q = 0 -> 1 [] q = 1 -> 1 [] q = 2 -> 3 [] q = 3 -> 3
                   [] q = 4 -> 5 [] q = 5 -> 5 [] OTHER -> 6
            ELSE IF c = "."
            THEN CASE q = 1 -> 2 [] q = 3 -> 4 [] OTHER -> 6
            ELSE 6
        RECURSIVE Run(_, _)
        Run(i, q) == IF i > Len(tag) THEN q ELSE Run(i + 1, Step(q, tag[i]))
    IN Run(1, 0) \in {3, 5}

\* the loop over the listing: the tags that are kept, in listing order
FilterTags(lines) ==
    LET RECURSIVE Go(_, _)
        Go(i, tags) ==
            IF i > Len(lines) THEN tags
            ELSE LET ref == RefOf(lines[i])
                     tag == RemoveAll(ref, Prefix)
                 IN IF EndsWith(ref, PeelMark) THEN Go(i + 1, tags)
                    ELSE IF MatchesSemver(tag) THEN Go(i + 1, Append(tags, tag))
                    ELSE Go(i + 1, tags)
    IN Go(1, <<>>)

\* tuple(int(p) for p in t.split("."))
sort_key(t) == LET parts == Split(t, ".") IN [i \in 1..Len(parts) |-> ParseInt(parts[i])]

\* Python's a < b on tuples of ints: the first differing position decides, and a
\* proper prefix is the smaller
TupleLess(a, b) ==
    LET RECURSIVE Go(_)
        Go(i) ==
            IF i > Len(a) THEN i <= Len(b)
            ELSE IF i > Len(b) THEN FALSE
            ELSE IF a[i] # b[i] THEN a[i] < b[i]
            ELSE Go(i + 1)
    IN Go(1)

\* tags.sort(key=sort_key, reverse=True): stable, so tags of equal key keep
\* their listing order
SortDesc(tags) ==
    LET Insert(sorted, t) ==
            LET ahead == {j \in 1..Len(sorted) :
                            ~TupleLess(sort_key(sorted[j]), sort_key(t))}
                k == IF ahead = {} THEN 0
                     ELSE CHOOSE j \in ahead : \A m \in ahead : m <= j
            IN SubSeq(sorted, 1, k) \o <<t>> \o SubSeq(sorted, k + 1, Len(sorted))
        RECURSIVE Go(_, _)
        Go(i, sorted) == IF i > Len(tags) THEN sorted ELSE Go(i + 1, Insert(sorted, tags[i]))
    IN Go(1, <<>>)

Zero_0_0 == <<"0", ".", "0", ".", "0">>

\* the function after a git query that exited zero with these lines
get_latest_upstream_tag(lines) ==
    LET tags == FilterTags(lines)
    IN IF tags = <<>> THEN Zero_0_0 ELSE Head(SortDesc(tags))

----------------------------------------------------------------------------
(* State Store: the state document and update_state *)

\* The document on disk is missing, text that is not JSON, JSON whose top
\* level is not an object, or a JSON object: its key/value entries in file
\* order (a key may repeat in the text) and its layout.
DocKeys == {"last_ref", "last_tag", "note"}
DocValues == {<<"o", "l", "d">>, <<"1", ".", "0">>}
DocMissing == [kind |-> "missing"]
DocGarbage == [kind |-> "garbage"]
DocArray == [kind |-> "json", top |-> "array"]
DocObject(entries, layout) ==
    [kind |-> "json", top |-> "object", entries |-> entries, layout |-> layout]

Docs == {DocMissing, DocGarbage, DocArray}
          \cup {DocObject(e, l) :
                  e \in UNION {[1..k -> DocKeys \X DocValues] : k \in 0..MaxEntries},
                  l \in {"compact", "indent2"}}

DictHas(d, k) == \E i \in 1..Len(d) : d[i][1] = k
DictGet(d, k) == d[CHOOSE i \in 1..Len(d) : d[i][1] = k][2]
DictKeys(d) == {d[i][1] : i \in 1..Len(d)}

\* d[k] = v on a dict (insertion-ordered): replace in place, or append
DictSet(d, k, v) ==
    IF DictHas(d, k)
    THEN [i \in 1..Len(d) |-> IF d[i][1] = k THEN <<k, v>> ELSE d[i]]
    ELSE Append(d, <<k, v>>)

\* json.loads of an object: entries in file order, a repeated key keeps its
\* first position and takes its last value
json_loads(entries) ==
    LET RECURSIVE Go(_, _)
        Go(i, d) == IF i > Len(entries) THEN d
                    ELSE Go(i + 1, DictSet(d, entries[i][1], entries[i][2]))
    IN Go(1, <<>>)

\* json.dumps(state, indent=2) + "\n"
json_dumps(d) == DocObject(d, "indent2")

\* what a reader of the document sees (state_file.read_text, json.loads)
ReadBack(doc) == json_loads(doc.entries)

Wrote(doc) == [ok |-> TRUE, err |-> "none", doc |-> doc]
Raised(err, doc) == [ok |-> FALSE, err |-> err, doc |-> doc]

\* faulty variant: only the two owned keys are written back
update_state_drop(doc, ref, tag) ==
    IF doc.kind = "missing" THEN Raised("FileNotFoundError", doc)
    ELSE IF doc.kind = "garbage" THEN Raised("JSONDecodeError", doc)
    ELSE IF doc.top # "object" THEN Raised("TypeError", doc)
    ELSE Wrote(json_dumps(<<<<"last_ref", ref>>, <<"last_tag", tag>>>>))

\* faulty variant: a document that cannot be loaded is started afresh
update_state_lenient(doc, ref, tag) ==
    IF doc.kind # "json" \/ doc.top # "object"
    THEN Wrote(json_dumps(<<<<"last_ref", ref>>, <<"last_tag", tag>>>>))
    ELSE Wrote(json_dumps(DictSet(DictSet(json_loads(doc.entries), "last_ref", ref),
                                  "last_tag", tag)))

\* update_state on the document found on disk: the outcome and the document
\* left on disk
update_state(doc, ref, tag) ==
    IF doc.kind = "missing" THEN Raised("FileNotFoundError", doc)
    ELSE IF doc.kind = "garbage" THEN Raised("JSONDecodeError", doc)
    ELSE IF doc.top # "object" THEN Raised("TypeError", doc)
    ELSE LET state == json_loads(doc.entries)
             s1 == DictSet(state, "last_ref", ref)
             s2 == DictSet(s1, "last_tag", tag)
         IN Wrote(json_dumps(s2))

----------------------------------------------------------------------------
(* Version Coordinator: compute_version and main *)

RemoteFailed == [ok |-> FALSE]
RemoteListed(lines) == [ok |-> TRUE, lines |-> lines]

\* what `git ls-remote` does when it is run: a non-zero exit
\* (CalledProcessError under check=True) or a listing
\* (the listings a run of the version tool is given are drawn from three tags)
QueryLines == {RefLine(Prefix \o n) : n \in {Tag_2_9, Tag_2_10, Tag_v1_0}}
RemoteOutcomes ==
    {RemoteFailed}
      \cup {RemoteListed(l) : l \in UNION {[1..k -> QueryLines] : k \in 0..MaxQueryLines}}

Returned(v, q) == [ok |-> TRUE, version |-> v, queries |-> q]
QueryFailed == [ok |-> FALSE, queries |-> 1]

\* faulty variant: the remote is asked before the override is looked at
compute_version_asks(tag_override, remote) ==
    IF ~remote.ok THEN QueryFailed
    ELSE IF Truthy(tag_override) THEN Returned(normalize_tag(tag_override.val), 1)
    ELSE Returned(normalize_tag(get_latest_upstream_tag(remote.lines)), 1)

\* compute_version, given what the remote does if it is queried: the version
\* returned (or the query's failure) and the number of remote queries made
compute_version(tag_override, remote) ==
    IF Truthy(tag_override) THEN Returned(normalize_tag(tag_override.val), 0)
    ELSE IF ~remote.ok THEN QueryFailed
    ELSE Returned(normalize_tag(get_latest_upstream_tag(remote.lines)), 1)

\* faulty variant: the computed version is always what is recorded
update_tag_computed(tag, ver) == ver

\* args.tag or version
update_tag(tag, ver) == IF Truthy(tag) THEN tag.val ELSE ver

Tag_2_5 == <<"2", ".", "5">>
Tag_3_2_1_4 == <<"3", ".", "2", ".", "1", ".", "4">>
Tag_v1 == <<"v", "1">>
Ref_abc123 == <<"a", "b", "c", "1", "2", "3">>

\* --tag and --update-ref as argparse leaves them
TagArgs == {None, Some(<<>>), Some(Tag_2_5), Some(Tag_3_2_1_4), Some(Tag_v1)}
UpdateRefs == {None, Some(<<>>), Some(Ref_abc123)}

\* faulty variant: computing the version also commits it to the state document
ComputeVersion_commits ==
    /\ pc = "start"
    /\ \E remote \in RemoteOutcomes :
         LET r == compute_version(tagArg, remote)
         IN /\ queries' = queries + r.queries
            /\ IF r.ok
               THEN /\ version' = Some(r.version)
                    /\ pc' = "computed"
                    /\ stateDoc' = update_state(stateDoc, <<>>, r.version).doc
                    /\ UNCHANGED <<error, exitCode>>
               ELSE /\ error' = "CalledProcessError"
                    /\ exitCode' = 1
                    /\ pc' = "done"
                    /\ UNCHANGED <<version, stateDoc>>
    /\ UNCHANGED <<tagArg, updateRef, doc0, printed>>
    /\ UNCHANGED <<normVars, resVars, schVars, valVars>>

\* version = compute_version(args.state_file, args.upstream_url, args.tag)
ComputeVersion ==
    /\ pc = "start"
    /\ \E remote \in RemoteOutcomes :
         LET r == compute_version(tagArg, remote)
         IN /\ queries' = queries + r.queries
            /\ IF r.ok
               THEN /\ version' = Some(r.version)
                    /\ pc' = "computed"
                    /\ UNCHANGED <<error, exitCode>>
               ELSE /\ error' = "CalledProcessError"
                    /\ exitCode' = 1
                    /\ pc' = "done"
                    /\ UNCHANGED version
    /\ UNCHANGED <<tagArg, updateRef, stateDoc, doc0, printed>>
    /\ UNCHANGED <<normVars, resVars, schVars, valVars>>

\* print(version)
PrintVersion ==
    /\ pc = "computed"
    /\ printed' = Append(printed, version.val)
    /\ pc' = "printed"
    /\ UNCHANGED <<tagArg, updateRef, stateDoc, doc0, version, queries, error, exitCode>>
    /\ UNCHANGED <<normVars, resVars, schVars, valVars>>

\* if args.update_ref: update_state(...); then the run ends
UpdateState ==
    /\ pc = "printed"
    /\ IF Truthy(updateRef)
       THEN LET r == update_state(stateDoc, updateRef.val, update_tag(tagArg, version.val))
            IN /\ stateDoc' = r.doc
               /\ error' = r.err
               /\ exitCode' = IF r.ok THEN 0 ELSE 1
       ELSE /\ exitCode' = 0
            /\ UNCHANGED <<stateDoc, error>>
    /\ pc' = "done"
    /\ UNCHANGED <<tagArg, updateRef, doc0, version, printed, queries>>
    /\ UNCHANGED <<normVars, resVars, schVars, valVars>>

----------------------------------------------------------------------------
(* Schema Extraction Orchestrator: extract_schema.py *)

\* what the schema-export subprocess can do: its exit status, its captured
\* standard output and standard error, and whether the destination file
\* exists once it has ended
ReturnCodes == {0, 1, 2}
CapturedOut == {"", "schema written"}
CapturedErr == {"", "database unreachable"}

\* one line group written to a stream, in the order written
Msg(stream, kind, text) == [stream |-> stream, kind |-> kind, text |-> text]

\* faulty variant: a zero exit is taken as success
extraction_status_exit_only(returncode, exists) == IF returncode # 0 THEN 1 ELSE 0

\* the exit status extract_schema ends the run with, from the subprocess's
\* return code and output_file.exists()
extraction_status(returncode, exists) ==
    IF returncode # 0 THEN 1
    ELSE IF ~exists THEN 1
    ELSE 0

\* main: the usage check and the upstream directory check
CheckArguments ==
    /\ sPc = "start"
    /\ IF sArgc < 3
       THEN /\ sLog' = Append(sLog, Msg("stderr", "usage", ""))
            /\ sExit' = 1
            /\ sPc' = "done"
       ELSE IF ~sDirExists
       THEN /\ sLog' = Append(sLog, Msg("stderr", "no-upstream-dir", ""))
            /\ sExit' = 1
            /\ sPc' = "done"
       ELSE /\ sPc' = "prepare"
            /\ UNCHANGED <<sLog, sExit>>
    /\ UNCHANGED <<sArgc, sDirExists, sStubExists, sOutExists, sRc, sCapOut, sCapErr>>
    /\ UNCHANGED <<normVars, resVars, verVars, valVars>>

\* ensure_version_info, then the two "Running" lines
EnsureVersionInfo ==
    /\ sPc = "prepare"
    /\ sStubExists' = TRUE
    /\ sLog' = (IF sStubExists THEN sLog ELSE Append(sLog, Msg("stdout", "created-stub", "")))
                 \o <<Msg("stdout", "running", "")>>
    /\ sPc' = "run"
    /\ UNCHANGED <<sArgc, sDirExists, sOutExists, sRc, sCapOut, sCapErr, sExit>>
    /\ UNCHANGED <<normVars, resVars, verVars, valVars>>

\* subprocess.run(cmd, capture_output=True): the subprocess runs to its end
RunSpectacular ==
    /\ sPc = "run"
    /\ \E rc \in ReturnCodes, out \in CapturedOut, err \in CapturedErr, exists \in BOOLEAN :
         /\ sRc' = Some(rc)
         /\ sCapOut' = out
         /\ sCapErr' = err
         /\ sOutExists' = exists
    /\ sPc' = "echo"
    /\ UNCHANGED <<sArgc, sDirExists, sStubExists, sLog, sExit>>
    /\ UNCHANGED <<normVars, resVars, verVars, valVars>>

\* if result.stdout: print(result.stdout); if result.stderr: print(..., file=stderr)
EchoOutput ==
    /\ sPc = "echo"
    /\ sLog' = sLog
                 \o (IF sCapOut # "" THEN <<Msg("stdout", "echo", sCapOut)>> ELSE <<>>)
                 \o (IF sCapErr # "" THEN <<Msg("stderr", "echo", sCapErr)>> ELSE <<>>)
    /\ sPc' = "check"
    /\ UNCHANGED <<sArgc, sDirExists, sStubExists, sOutExists, sRc, sCapOut, sCapErr, sExit>>
    /\ UNCHANGED <<normVars, resVars, verVars, valVars>>

\* the return-code check, the existence check and the success line
CheckResult ==
    /\ sPc = "check"
    /\ sExit' = extraction_status(sRc.val, sOutExists)
    /\ sLog' = Append(sLog,
                 IF sRc.val # 0 THEN Msg("stderr", "failed-exit-code", "")
                 ELSE IF ~sOutExists THEN Msg("stderr", "missing-output-file", "")
                 ELSE Msg("stdout", "extracted", ""))
    /\ sPc' = "done"
    /\ UNCHANGED <<sArgc, sDirExists, sStubExists, sOutExists, sRc, sCapOut, sCapErr>>
    /\ UNCHANGED <<normVars, resVars, verVars, valVars>>

----------------------------------------------------------------------------
(* Package Validator: validate_client.py *)

EXPECTED_MODELS ==
    << <<"R", "e", "c", "i", "p", "e">>,
       <<"I", "n", "g", "r", "e", "d", "i", "e", "n", "t">>,
       <<"S", "t", "e", "p">>,
       <<"K", "e", "y", "w", "o", "r", "d">>,
       <<"F", "o", "o", "d">>,
       <<"U", "n", "i", "t">>,
       <<"M", "e", "a", "l", "P", "l", "a", "n">>,
       <<"S", "h", "o", "p", "p", "i", "n", "g", "L", "i", "s", "t", "E", "n", "t", "r", "y">>,
       <<"U", "s", "e", "r", "P", "r", "e", "f", "e", "r", "e", "n", "c", "e">> >>

UpperCase == <<"A", "B", "C", "D", "E", "F", "G", "H", "I", "J", "K", "L", "M">>
               \o <<"N", "O", "P", "Q", "R", "S", "T", "U", "V", "W", "X", "Y", "Z">>
LowerCase == <<"a", "b", "c", "d", "e", "f", "g", "h", "i", "j", "k", "l", "m">>
               \o <<"n", "o", "p", "q", "r", "s", "t", "u", "v", "w", "x", "y", "z">>

\* str.lower()
Lower(s) ==
    [i \in 1..Len(s) |->
        IF \E j \in 1..Len(UpperCase) : UpperCase[j] = s[i]
        THEN LowerCase[CHOOSE j \in 1..Len(UpperCase) : UpperCase[j] = s[i]]
        ELSE s[i]]

\* attribute names the generated models namespace may hold
Name_Recipe == <<"R", "e", "c", "i", "p", "e">>
Name_mealplan == <<"m", "e", "a", "l", "p", "l", "a", "n">>
Name_Client == <<"C", "l", "i", "e", "n", "t">>
NamespaceNames == {Name_Recipe, Name_mealplan, Name_Client}

\* How the generated package behaves when loaded.
\*   top    : `import tandoor_client` succeeds, raises ImportError, or raises
\*            another exception (a SyntaxError in generated code, say)
\*   client : Client is there and constructs, is there and its construction
\*            raises, or is absent
\*   auth   : AuthenticatedClient is there
\*   models, types : the import of tandoor_client.models / tandoor_client.types
\*   names  : the attribute names of the models namespace
\* A package whose top-level import fails has nothing else to tell apart.
ImportOutcomes == {"ok", "ImportError", "Error"}
Artifacts ==
    {[top |-> "ok", client |-> c, auth |-> a, models |-> m, types |-> t, names |-> n] :
        c \in {"ok", "raises", "absent"}, a \in BOOLEAN,
        m \in ImportOutcomes, t \in ImportOutcomes, n \in SUBSET NamespaceNames}
    \cup {[top |-> f, client |-> "absent", auth |-> FALSE, models |-> f, types |-> f,
           names |-> {}] : f \in {"ImportError", "Error"}}

\* a check's outcome: the value it returns, or an exception leaving it
Ret(v) == [raised |-> FALSE, value |-> v]
Propagates == [raised |-> TRUE]

\* check_import: only ImportError is caught
check_import(a) ==
    IF a.top = "ok" THEN Ret(TRUE)
    ELSE IF a.top = "ImportError" THEN Ret(FALSE)
    ELSE Propagates

\* check_client_class
check_client_class(a) ==
    IF a.top = "ImportError" \/ (a.top = "ok" /\ a.client = "absent")
    THEN \* except ImportError: the AuthenticatedClient fallback
         IF a.top = "ok" /\ a.auth THEN Ret(TRUE) ELSE Ret(FALSE)
    ELSE \* imported and constructed, or `except Exception`
         Ret(TRUE)

\* hasattr(models_mod, model_name), else a case-insensitive substring match
\* over dir(models_mod)
ModelFound(model_name, names) ==
    \/ model_name \in names
    \/ \E n \in names : Contains(Lower(n), Lower(model_name))

\* the loop over EXPECTED_MODELS: <<found, missing>>
CountModels(names) ==
    LET RECURSIVE Go(_, _, _)
        Go(i, found, missing) ==
            IF i > Len(EXPECTED_MODELS) THEN <<found, missing>>
            ELSE IF ModelFound(EXPECTED_MODELS[i], names) THEN Go(i + 1, found + 1, missing)
            ELSE Go(i + 1, found, missing + 1)
    IN Go(1, 0, 0)

\* check_models: the models module, else the types module, else (0, all)
check_models(a) ==
    IF a.models = "ok" THEN Ret(CountModels(a.names))
    ELSE IF a.models = "Error" THEN Propagates
    ELSE IF a.types = "ok" THEN Ret(CountModels(a.names))
    ELSE IF a.types = "Error" THEN Propagates
    ELSE Ret(<<0, Len(EXPECTED_MODELS)>>)

\* what running mypy comes to
MypyOutcomes == {"passed", "issues", "unavailable", "timeout"}

\* faulty variant: issues found by the static check fail it
check_mypy_blocking(outcome) == outcome # "issues"

\* check_mypy: every branch returns True
check_mypy(outcome) ==
    IF outcome = "passed" THEN TRUE
    ELSE IF outcome = "issues" THEN TRUE
    ELSE TRUE

\* all(results)
All(results) == \A i \in 1..Len(results) : results[i]

\* an exception leaves main: traceback, exit status 1
Crash ==
    /\ vRaised' = TRUE
    /\ vExit' = 1
    /\ vPc' = "done"

\* results.append(check_import())
CheckImport ==
    /\ vPc = "import"
    /\ LET r == check_import(artifact)
       IN IF r.raised
          THEN Crash /\ UNCHANGED vResults
          ELSE /\ vResults' = Append(vResults, r.value)
               /\ vPc' = "client"
               /\ UNCHANGED <<vRaised, vExit>>
    /\ UNCHANGED <<artifact, vArgc, vMypy, vFound, vMissing>>
    /\ UNCHANGED <<normVars, resVars, verVars, schVars>>

\* results.append(check_client_class())
CheckClientClass ==
    /\ vPc = "client"
    /\ LET r == check_client_class(artifact)
       IN IF r.raised
          THEN Crash /\ UNCHANGED vResults
          ELSE /\ vResults' = Append(vResults, r.value)
               /\ vPc' = "models"
               /\ UNCHANGED <<vRaised, vExit>>
    /\ UNCHANGED <<artifact, vArgc, vMypy, vFound, vMissing>>
    /\ UNCHANGED <<normVars, resVars, verVars, schVars>>

\* found, missing = check_models(); results.append(found > 0)
CheckModels ==
    /\ vPc = "models"
    /\ LET r == check_models(artifact)
       IN IF r.raised
          THEN Crash /\ UNCHANGED <<vResults, vFound, vMissing>>
          ELSE /\ vFound' = r.value[1]
               /\ vMissing' = r.value[2]
               /\ vResults' = Append(vResults, r.value[1] > 0)
               /\ vPc' = "types"
               /\ UNCHANGED <<vRaised, vExit>>
    /\ UNCHANGED <<artifact, vArgc, vMypy>>
    /\ UNCHANGED <<normVars, resVars, verVars, schVars>>

\* if len(sys.argv) > 1: results.append(check_mypy(...)), else the SKIP line
TypeCheck ==
    /\ vPc = "types"
    /\ IF vArgc > 1
       THEN \E outcome \in MypyOutcomes :
              /\ vMypy' = outcome
              /\ vResults' = Append(vResults, check_mypy(outcome))
       ELSE UNCHANGED <<vMypy, vResults>>
    /\ vPc' = "verdict"
    /\ UNCHANGED <<artifact, vArgc, vFound, vMissing, vRaised, vExit>>
    /\ UNCHANGED <<normVars, resVars, verVars, schVars>>

\* sys.exit(0) if all(results) else sys.exit(1)
Verdict ==
    /\ vPc = "verdict"
    /\ vExit' = IF All(vResults) THEN 0 ELSE 1
    /\ vPc' = "done"
    /\ UNCHANGED <<artifact, vArgc, vMypy, vResults, vFound, vMissing, vRaised>>
    /\ UNCHANGED <<normVars, resVars, verVars, schVars>>

----------------------------------------------------------------------------
(* normalize_tag and get_latest_upstream_tag applied on their own *)

\* the components strings are put together from: empty, a number, a longer
\* number, a word
Components == {<<>>, <<"1">>, <<"2", "5">>, <<"r", "c">>}
NormInputs == {Join(ps, ".") : ps \in UNION {[1..k -> Components] : k \in 1..MaxParts}}

\* normalize_tag(tag), and normalize_tag of what it returned
Normalize ==
    /\ Len(nOuts) < 2
    /\ nOuts' = Append(nOuts, normalize_tag(IF nOuts = <<>> THEN nTag ELSE nOuts[Len(nOuts)]))
    /\ UNCHANGED nTag
    /\ UNCHANGED <<resVars, verVars, schVars, valVars>>

\* get_latest_upstream_tag(upstream_url) when git lists the remote's tags
ResolveListed ==
    /\ rOutcome.status = "pending"
    /\ rOutcome' = [status |-> "returned", tag |-> get_latest_upstream_tag(rListing)]
    /\ UNCHANGED rListing
    /\ UNCHANGED <<normVars, verVars, schVars, valVars>>

\* get_latest_upstream_tag(upstream_url) when git exits non-zero: check=True
\* raises CalledProcessError and nothing is returned
ResolveFailed ==
    /\ rOutcome.status = "pending"
    /\ rOutcome' = [status |-> "raised", error |-> "CalledProcessError"]
    /\ UNCHANGED rListing
    /\ UNCHANGED <<normVars, verVars, schVars, valVars>>

----------------------------------------------------------------------------
(* Initial states and specifications *)

IdleNorm == nTag = <<>> /\ nOuts = <<>>
IdleRes == rListing = <<>> /\ rOutcome = [status |-> "idle"]
IdleVer ==
    /\ pc = "idle" /\ tagArg = None /\ updateRef = None
    /\ stateDoc = DocMissing /\ doc0 = DocMissing
    /\ version = None /\ printed = <<>> /\ queries = 0 /\ error = "none" /\ exitCode = -1
IdleSch ==
    /\ sPc = "idle" /\ sArgc = 1 /\ sDirExists = FALSE /\ sStubExists = FALSE
    /\ sOutExists = FALSE /\ sRc = None /\ sCapOut = "" /\ sCapErr = ""
    /\ sLog = <<>> /\ sExit = -1
IdleVal ==
    /\ vPc = "idle" /\ artifact \in {a \in Artifacts : a.top = "ImportError"} /\ vArgc = 1
    /\ vMypy = "not-invoked" /\ vResults = <<>> /\ vFound = 0 /\ vMissing = 0
    /\ vRaised = FALSE /\ vExit = -1

\* the version tool, after parse_args
Init ==
    /\ pc = "start"
    /\ tagArg \in TagArgs
    /\ updateRef \in UpdateRefs
    /\ stateDoc \in Docs
    /\ doc0 = stateDoc
    /\ version = None /\ printed = <<>> /\ queries = 0 /\ error = "none" /\ exitCode = -1
    /\ IdleNorm /\ IdleRes /\ IdleSch /\ IdleVal

Next == ComputeVersion \/ PrintVersion \/ UpdateState

Spec == Init /\ [][Next]_vars

InitNormalize ==
    /\ nTag \in NormInputs
    /\ nOuts = <<>>
    /\ IdleRes /\ IdleVer /\ IdleSch /\ IdleVal

NextNormalize == Normalize

SpecNormalize == InitNormalize /\ [][NextNormalize]_vars

InitResolver ==
    /\ rListing \in Listings(MaxLines)
    /\ rOutcome = [status |-> "pending"]
    /\ IdleNorm /\ IdleVer /\ IdleSch /\ IdleVal

NextResolver == ResolveListed \/ ResolveFailed

SpecResolver == InitResolver /\ [][NextResolver]_vars

\* the schema tool, as it is started
InitSchema ==
    /\ sPc = "start"
    /\ sArgc \in 1..4
    /\ sDirExists \in BOOLEAN
    /\ sStubExists \in BOOLEAN
    /\ sOutExists \in BOOLEAN
    /\ sRc = None /\ sCapOut = "" /\ sCapErr = "" /\ sLog = <<>> /\ sExit = -1
    /\ IdleNorm /\ IdleRes /\ IdleVer /\ IdleVal

NextSchema ==
    CheckArguments \/ EnsureVersionInfo \/ RunSpectacular \/ EchoOutput \/ CheckResult

SpecSchema == InitSchema /\ [][NextSchema]_vars

\* the validator, as it is started
InitValidator ==
    /\ vPc = "import"
    /\ artifact \in Artifacts
    /\ vArgc \in 1..2
    /\ vMypy = "not-invoked" /\ vResults = <<>> /\ vFound = 0 /\ vMissing = 0
    /\ vRaised = FALSE /\ vExit = -1
    /\ IdleNorm /\ IdleRes /\ IdleVer /\ IdleSch

NextValidator == CheckImport \/ CheckClientClass \/ CheckModels \/ TypeCheck \/ Verdict

SpecValidator == InitValidator /\ [][NextValidator]_vars

----------------------------------------------------------------------------
(* Claims about the version tool (Spec) *)

UpdateSucceeded == pc = "done" /\ exitCode = 0 /\ Truthy(updateRef)
IsObject(doc) == doc.kind = "json" /\ doc.top = "object"
Unloadable(doc) == doc.kind \in {"missing", "garbage"}
Owned == {"last_ref", "last_tag"}

\* C1, as stated: once compute_version has returned for a run whose --tag was
\* supplied (any string at all), no remote query was made and the version is
\* normalize_tag of the override.
C1_OverrideAnyString ==
    (pc # "start" /\ tagArg.some) =>
        /\ queries = 0
        /\ version = Some(normalize_tag(tagArg.val))

\* C1, amended: for every non-empty override string, whatever its shape, no
\* remote query is made and the version is normalize_tag of the override; an
\* empty override is treated as no override, and the remote is queried once.
C1_OverrideNonEmpty ==
    /\ (pc # "start" /\ Truthy(tagArg)) =>
           /\ queries = 0
           /\ error # "CalledProcessError"
           /\ version = Some(normalize_tag(tagArg.val))
    /\ (pc # "start" /\ ~Truthy(tagArg)) => queries = 1

C1_Witness ==
    /\ pc = "done" /\ tagArg = Some(Tag_v1) /\ queries = 0
    /\ version = Some(<<"v", "1", ".", "0", ".", "0">>)

\* C4: after a successful update_state(ref, tag) the document read back has
\* last_ref = ref and last_tag = tag, holds every key it held before besides
\* those two with its value unchanged, and holds no further key; a document the
\* update did not succeed on has neither field touched.
C4_UpdateFrame ==
    /\ UpdateSucceeded =>
         /\ IsObject(doc0) /\ IsObject(stateDoc)
         /\ LET new == ReadBack(stateDoc)
                old == ReadBack(doc0)
            IN /\ DictHas(new, "last_ref") /\ DictGet(new, "last_ref") = updateRef.val
               /\ DictHas(new, "last_tag")
               /\ DictGet(new, "last_tag") = update_tag(tagArg, version.val)
               /\ DictKeys(new) = DictKeys(old) \cup Owned
               /\ \A k \in DictKeys(old) \ Owned : DictGet(new, k) = DictGet(old, k)
    /\ ~UpdateSucceeded => stateDoc = doc0

C4_Witness ==
    /\ UpdateSucceeded
    /\ IsObject(doc0)
    /\ {"note", "last_ref"} \subseteq DictKeys(ReadBack(doc0))
    /\ DictGet(ReadBack(doc0), "last_ref") # updateRef.val
    /\ DictGet(ReadBack(stateDoc), "note") = DictGet(ReadBack(doc0), "note")

\* C5, as stated: a run given --update-ref (any string) on a missing or
\* unparsable document ends with a non-zero status and the document as it was.
C5_AnyUpdateRef ==
    (pc = "done" /\ updateRef.some /\ Unloadable(doc0)) =>
        /\ exitCode # 0
        /\ stateDoc = doc0

\* C5, amended: a run given a non-empty --update-ref on a missing or unparsable
\* document ends with exit status 1 on an uncaught error (FileNotFoundError for
\* a missing document, JSONDecodeError for an unparsable one, unless the remote
\* query already failed), and the document is as it was at every point of the
\* run; with an empty --update-ref no update is attempted.
C5_UpdateOnUnloadable ==
    /\ Unloadable(doc0) => stateDoc = doc0
    /\ (pc = "done" /\ Truthy(updateRef) /\ Unloadable(doc0)) =>
           /\ exitCode = 1
           /\ IF version.some
              THEN error = (IF doc0.kind = "missing" THEN "FileNotFoundError"
                            ELSE "JSONDecodeError")
              ELSE error = "CalledProcessError"
    /\ (pc = "done" /\ ~Truthy(updateRef) /\ version.some) => exitCode = 0

C5_Witness ==
    /\ pc = "done" /\ Truthy(updateRef) /\ doc0 = DocGarbage
    /\ error = "JSONDecodeError" /\ exitCode = 1 /\ printed # <<>>

\* C6: the state document changes only in the update step of main, which is
\* taken only with an update reference given and after compute_version has
\* returned a version (and it was printed); a run without --update-ref leaves
\* the document unchanged; a run whose remote query fails ends at once with
\* one query made and the document unchanged.
C6_WriteOnlyByUpdate ==
    /\ [][stateDoc' # stateDoc =>
            /\ pc = "printed" /\ pc' = "done"
            /\ updateRef.some
            /\ version.some /\ printed = <<version.val>>]_vars
    /\ []((pc = "done" /\ ~updateRef.some) => stateDoc = doc0)
    /\ [](error = "CalledProcessError" =>
            /\ pc = "done" /\ exitCode = 1
            /\ queries = 1
            /\ printed = <<>>
            /\ stateDoc = doc0)

C6_Witness == pc = "done" /\ stateDoc # doc0 /\ queries = 1 /\ printed # <<>>

\* C7, as stated: after a completed run given --update-ref r (any string), the
\* document has last_ref = r, and last_tag = the --tag value when one was
\* given (any string), otherwise the version the run printed.
C7_AnyRefAnyTag ==
    (pc = "done" /\ exitCode = 0 /\ updateRef.some) =>
        /\ IsObject(stateDoc)
        /\ DictHas(ReadBack(stateDoc), "last_ref")
        /\ DictGet(ReadBack(stateDoc), "last_ref") = updateRef.val
        /\ DictHas(ReadBack(stateDoc), "last_tag")
        /\ DictGet(ReadBack(stateDoc), "last_tag") =
              (IF tagArg.some THEN tagArg.val ELSE printed[1])

\* C7, amended: after a completed run given a non-empty --update-ref r, the
\* document has last_ref = r, and last_tag = the --tag value exactly as given
\* (not normalized) when a non-empty one was given, otherwise the canonical
\* version the run printed; a completed run given an empty --update-ref leaves
\* the document as it was.
C7_RecordedRefAndTag ==
    /\ UpdateSucceeded =>
         /\ IsObject(stateDoc)
         /\ DictHas(ReadBack(stateDoc), "last_ref")
         /\ DictGet(ReadBack(stateDoc), "last_ref") = updateRef.val
         /\ DictHas(ReadBack(stateDoc), "last_tag")
         /\ Len(printed) = 1
         /\ DictGet(ReadBack(stateDoc), "last_tag") =
               (IF Truthy(tagArg) THEN tagArg.val ELSE printed[1])
    /\ (pc = "done" /\ exitCode = 0 /\ ~Truthy(updateRef)) => stateDoc = doc0

C7_Witness ==
    /\ UpdateSucceeded
    /\ tagArg = Some(Tag_2_5)
    /\ printed = <<<<"2", ".", "5", ".", "0">>>>
    /\ DictGet(ReadBack(stateDoc), "last_tag") = Tag_2_5

----------------------------------------------------------------------------
(* Claim about normalize_tag (SpecNormalize) *)

\* C3: normalize_tag returns a string of exactly three dot-separated
\* components, the first three components of its input with "0" components
\* added on the right when the input has fewer; an input of exactly three
\* components comes back unchanged, and normalizing the result again changes
\* nothing.
C3_ThreeComponents ==
    /\ Len(nOuts) >= 1 =>
         LET parts == Split(nTag, ".")
             out == Split(nOuts[1], ".")
         IN /\ Len(out) = 3
            /\ \A i \in 1..3 : out[i] = (IF i <= Len(parts) THEN parts[i] ELSE <<"0">>)
            /\ Len(parts) = 3 => nOuts[1] = nTag
    /\ Len(nOuts) = 2 => nOuts[2] = nOuts[1]

C3_Witness ==
    /\ Len(nOuts) = 2
    /\ Len(Split(nTag, ".")) = 4
    /\ Split(nTag, ".")[1] = <<>>
    /\ nOuts[1] # nTag

----------------------------------------------------------------------------
(* Claim about get_latest_upstream_tag (SpecResolver) *)

\* a reference name with the tag-namespace prefix stripped from its front
StripPrefix(ref) ==
    IF OccursAt(ref, Prefix, 1) THEN SubSeq(ref, Len(Prefix) + 1, Len(ref)) ELSE ref

\* exactly two or three dot-separated non-negative integers
IsVersionShape(name) ==
    LET parts == Split(name, ".")
    IN /\ Len(parts) \in {2, 3}
       /\ \A i \in 1..Len(parts) :
            parts[i] # <<>> /\ \A j \in 1..Len(parts[i]) : parts[i][j] \in Digits

\* the qualifying tags of a listing
Qualifying(lines) ==
    {StripPrefix(RefOf(lines[i])) : i \in {j \in 1..Len(lines) :
        /\ Contains(lines[j], <<Tab>>)
        /\ ~EndsWith(RefOf(lines[j]), PeelMark)
        /\ IsVersionShape(StripPrefix(RefOf(lines[j])))}}

\* C2: what get_latest_upstream_tag returns is "0.0.0" when no tag of the
\* listing qualifies, and otherwise a qualifying tag that no qualifying tag
\* exceeds under integer-tuple comparison.
C2_LatestQualifying ==
    rOutcome.status = "returned" =>
        LET q == Qualifying(rListing)
        IN IF q = {} THEN rOutcome.tag = Zero_0_0
           ELSE /\ rOutcome.tag \in q
                /\ \A t \in q : ~TupleLess(sort_key(rOutcome.tag), sort_key(t))

----------------------------------------------------------------------------
(* Claim about the schema tool (SpecSchema) *)

\* C8: a run ends with status 0 exactly when the subprocess ran, exited zero
\* and the destination file exists afterwards, and with status 1 otherwise;
\* when the subprocess ran and the run fails, the failure line is the last
\* thing written and every non-empty captured stream was echoed, verbatim,
\* before it.
C8_SuccessIffExitZeroAndFile ==
    /\ sPc = "done" =>
         /\ sExit \in {0, 1}
         /\ sExit = 0 <=> (sRc.some /\ sRc.val = 0 /\ sOutExists)
    /\ (sRc.some /\ sExit # -1 /\ sExit # 0) =>
         LET n == Len(sLog)
         IN /\ sLog[n] = Msg("stderr", (IF sRc.val # 0 THEN "failed-exit-code"
                                         ELSE "missing-output-file"), "")
            /\ sCapOut # "" => \E i \in 1..(n - 1) : sLog[i] = Msg("stdout", "echo", sCapOut)
            /\ sCapErr # "" => \E i \in 1..(n - 1) : sLog[i] = Msg("stderr", "echo", sCapErr)
    /\ sExit # -1 => sPc = "done"

C8_Witness ==
    /\ sPc = "done" /\ sRc = Some(0) /\ ~sOutExists /\ sExit = 1
    /\ sCapOut # "" /\ sCapErr # ""

----------------------------------------------------------------------------
(* Claims about the validator (SpecValidator) *)

\* C9: the validator exits 0 exactly when the import check returned true, the
\* entry-point check returned true and at least one expected model was found,
\* and 1 otherwise, whatever the static check came to (passed, issues,
\* unavailable, timed out, not invoked).
C9_ExitIffThreeChecks ==
    vPc = "done" =>
        /\ vExit \in {0, 1}
        /\ vExit = 0 <=> (Len(vResults) >= 3 /\ vResults[1] /\ vResults[2] /\ vFound > 0)

C9_Witness ==
    /\ vPc = "done" /\ vExit = 0 /\ vMypy = "issues" /\ vFound = 1
    /\ artifact.client = "absent"

\* C10: no exception leaves the validator, and every run that has ended has
\* recorded the import, entry-point and model checks and exited 0 or 1.
C10_NeverRaises ==
    /\ ~vRaised
    /\ vPc = "done" => (Len(vResults) >= 3 /\ vExit \in {0, 1})

====
